---- MODULE Spec2Model ----
(***************************************************************************)
(* JsonWebKey (authlib/jose/rfc7517/jwk.py): a registry of JWK codecs      *)
(* keyed by key-type tag, with loads (mapping -> key) and dumps            *)
(* (key -> mapping) dispatching to the registered codecs.                  *)
(*                                                                         *)
(* Python values are modelled as follows.  A dict is a function from       *)
(* field names to values; a list or tuple is a sequence; None is the       *)
(* reserved string "None"; an exception is a result whose exc field names  *)
(* the exception class.  The registry is an insertion-ordered dict: a      *)
(* sequence of [name, alg] entries with pairwise distinct names.           *)
(***************************************************************************)
EXTENDS Integers, Sequences, FiniteSets, TLC

VARIABLES
    algorithms,                 \* self._algorithms
    JWK_AVAILABLE_ALGORITHMS,   \* the class attribute (default catalog)
    latest,                     \* history: tag -> codec of the most recent successful registration
    regOrder,                   \* history: registered tags, oldest current registration first
    tagOrder,                   \* history: registered tags, in the order each was first registered
    call,                       \* the last operation called, with its arguments
    result                      \* what that operation returned or raised

vars == <<algorithms, JWK_AVAILABLE_ALGORITHMS, latest, regOrder, tagOrder, call, result>>

\* ------------------------------------------------------------ bounds
MaxKeys == 2        \* longest key set passed to loads
MaxParams == 2      \* most extra parameters passed to dumps

\* ----------------------------------------------------- Python values
None == "None"
EmptyDict == [n \in {} |-> ""]

\* bool(v) for None and strings
Truthy(v) == v # None /\ v # ""

\* d.get(k)
Get(d, k) == IF k \in DOMAIN d THEN d[k] ELSE None

NoKey == [cls |-> None, val |-> 0]

Return(v, calls) == [exc |-> "", msg |-> "", value |-> v, calls |-> calls]
Raise(exc, msg, novalue, calls) == [exc |-> exc, msg |-> msg, value |-> novalue, calls |-> calls]

\* --------------------------------------------- codec plugins (fixtures)
\* Instances of JWKAlgorithm subclasses, and two objects that are no JWK
\* codec: a JWS algorithm and an object without an algorithm_type.
JWKCodecs == {"OctA", "OctB", "EcC", "EcD"}
Objects == JWKCodecs \cup {"Hs256", "Plain"}

HasAlgorithmType(o) == o # "Plain"

algorithm_type(o) == IF o = "Hs256" THEN "JWS" ELSE "JWK"

name(o) ==
    CASE o \in {"OctA", "OctB"} -> "oct"
      [] o \in {"EcC", "EcD"} -> "EC"
      [] OTHER -> "HS256"

key_cls(o) ==
    CASE o \in {"OctA", "OctB"} -> {"bytes"}
      [] o = "EcC" -> {"bytes", "ECKey"}
      [] o = "EcD" -> {"ECKey"}
      [] OTHER -> {}

isinstance(key, classes) == key.cls \in classes

\* alg.prepare_key(key): a text secret is encoded to bytes by the oct
\* codecs; everything else is rejected.
prepare_key(alg, key) ==
    IF alg \in {"OctA", "OctB"} /\ key.cls = "str"
    THEN Return([cls |-> "bytes", val |-> key.val], <<[alg |-> alg, op |-> "prepare_key"]>>)
    ELSE Raise("ValueError", "prepare_key", NoKey, <<[alg |-> alg, op |-> "prepare_key"]>>)

\* The key material a fixture key holds: one byte.
KeyVals == {0, 1}

\* How each codec writes the key material into the k field: OctA as
\* base64url of the byte, OctB as hex, the EC codecs with a curve prefix.
Encode(alg, v) ==
    CASE alg = "OctA" -> IF v = 0 THEN "AA" ELSE "AQ"
      [] alg = "OctB" -> IF v = 0 THEN "00" ELSE "01"
      [] OTHER        -> IF v = 0 THEN "P0" ELSE "P1"

\* alg.dumps(key): the family's field set.
alg_dumps(alg, key) ==
    CASE alg = "OctA" -> [kty |-> "oct", k |-> Encode(alg, key.val)]
      [] alg = "OctB" -> [kty |-> "oct", k |-> Encode(alg, key.val), use |-> "enc"]
      [] alg = "EcC"  -> [kty |-> "EC", k |-> Encode(alg, key.val)]
      [] OTHER        -> [kty |-> "ec", k |-> Encode(alg, key.val)]

\* alg.loads(obj): the key decoded from k, or the codec's own error when
\* k is missing or is not in the codec's encoding.  The oct codecs give
\* bytes; the EC codecs give an ECKey whatever the key dumped was.
alg_loads(alg, obj) ==
    LET me == <<[alg |-> alg, op |-> "loads"]>>
        cls == IF alg \in {"OctA", "OctB"} THEN "bytes" ELSE "ECKey"
    IN  IF "k" \in DOMAIN obj /\ \E v \in KeyVals : Encode(alg, v) = obj["k"]
        THEN Return([cls |-> cls, val |-> CHOOSE v \in KeyVals : Encode(alg, v) = obj["k"]], me)
        ELSE Raise("ValueError", "malformed", NoKey, me)

\* ------------------------------------------------ the ordered registry
Names(algs) == {algs[i].name : i \in 1..Len(algs)}

\* self._algorithms[kty], for a kty that is registered
Lookup(algs, kty) == algs[CHOOSE i \in 1..Len(algs) : algs[i].name = kty].alg

\* SetItem with a replaced key moved to the end (delete, then insert)
SetItemMoveToEnd(algs, n, alg) ==
    Append(SelectSeq(algs, LAMBDA e : e.name # n), [name |-> n, alg |-> alg])

\* SetItem that leaves a key already present alone (setdefault)
SetItemKeepFirst(algs, n, alg) ==
    IF n \in Names(algs) THEN algs ELSE Append(algs, [name |-> n, alg |-> alg])

\* self._algorithms[n] = alg: an existing key keeps its place, a new one goes last
SetItem(algs, n, alg) ==
    IF n \in Names(algs)
    THEN [i \in 1..Len(algs) |-> IF algs[i].name = n THEN [name |-> n, alg |-> alg] ELSE algs[i]]
    ELSE Append(algs, [name |-> n, alg |-> alg])

\* ----------------------------------------------- register_algorithm
StrArg(s) == [kind |-> "str", v |-> s]
ObjArg(o) == [kind |-> "obj", v |-> o]
NoneArg == [kind |-> "none", v |-> None]

\* line 36-37: a name is looked up in the catalog when there is one
Resolve(catalog, a) ==
    IF a.kind = "str" /\ catalog # EmptyDict
    THEN IF a.v \in DOMAIN catalog THEN ObjArg(catalog[a.v]) ELSE NoneArg
    ELSE a

\* bool(algorithm)
ArgTruthy(a) == CASE a.kind = "none" -> FALSE [] a.kind = "str" -> a.v # "" [] OTHER -> TRUE

\* the registry and the outcome of register_algorithm(a)
register_algorithm(algs, catalog, a) ==
    LET r == Resolve(catalog, a)
    IN  IF ~ArgTruthy(r)
        THEN [algs |-> algs, out |-> Raise("ValueError", "Invalid algorithm for JWK", None, <<>>)]
        ELSE IF r.kind = "str" \/ ~HasAlgorithmType(r.v)
        THEN [algs |-> algs, out |-> Raise("AttributeError", "algorithm_type", None, <<>>)]
        ELSE IF algorithm_type(r.v) # "JWK"
        THEN [algs |-> algs, out |-> Raise("ValueError", "Invalid algorithm for JWK", None, <<>>)]
        ELSE [algs |-> SetItem(algs, name(r.v), r.v), out |-> Return(None, <<>>)]

\* ------------------------------------------------------------- loads
\* The argument of loads: a dict, a list or a tuple.  v maps a dict's
\* string-valued fields; its keys field, whose value is a sequence of
\* dicts, is kept apart in items (hasKeys says whether the dict has one).
\* items are the elements of a list or a tuple, each a dict.
Dict(f) == [shape |-> "dict", v |-> f, hasKeys |-> FALSE, items |-> <<>>]
KeysDict(f, s) == [shape |-> "dict", v |-> f, hasKeys |-> TRUE, items |-> s]
List(s) == [shape |-> "list", v |-> EmptyDict, hasKeys |-> FALSE, items |-> s]
Tuple(s) == [shape |-> "tuple", v |-> EmptyDict, hasKeys |-> FALSE, items |-> s]

\* 'name' in obj: a key of a dict; never an element of a sequence of dicts
In(n, obj) ==
    /\ obj.shape = "dict"
    /\ IF n = "keys" THEN obj.hasKeys ELSE n \in DOMAIN obj.v

\* _load_obj falling back to the first registered codec for an unknown kty
LoadObjFallback(algs, d) ==
    IF "kty" \notin DOMAIN d
    THEN Raise("KeyError", "kty", NoKey, <<>>)
    ELSE IF d["kty"] \notin Names(algs)
    THEN IF algs = <<>> THEN Raise("KeyError", d["kty"], NoKey, <<>>) ELSE alg_loads(algs[1].alg, d)
    ELSE alg_loads(Lookup(algs, d["kty"]), d)

\* _load_obj(obj), obj a dict
_load_obj(algs, d) ==
    IF "kty" \notin DOMAIN d
    THEN Raise("KeyError", "kty", NoKey, <<>>)
    ELSE IF d["kty"] \notin Names(algs)
    THEN Raise("KeyError", d["kty"], NoKey, <<>>)
    ELSE alg_loads(Lookup(algs, d["kty"]), d)

\* the loop over keys returning the last match instead of the first
ScanKeysLast(algs, keys, i, kid) ==
    LET hits == {j \in i..Len(keys) : Get(keys[j], "kid") = kid}
    IN  IF hits = {}
        THEN Raise("ValueError", "Invalid JWK kid", NoKey, <<>>)
        ELSE _load_obj(algs, keys[CHOOSE j \in hits : \A h \in hits : h <= j])

\* lines 97-100: the loop over keys, from position i on
RECURSIVE ScanKeys(_, _, _, _)
ScanKeys(algs, keys, i, kid) ==
    IF i > Len(keys)
    THEN Raise("ValueError", "Invalid JWK kid", NoKey, <<>>)
    ELSE IF Get(keys[i], "kid") = kid
    THEN _load_obj(algs, keys[i])
    ELSE ScanKeys(algs, keys, i + 1, kid)

\* _load_jwk_set taking a dict without a keys field for an empty key set
LoadJwkSetLenient(algs, obj, kid) ==
    IF obj.shape \in {"tuple", "list"} \/ In("keys", obj)
    THEN ScanKeys(algs, obj.items, 1, kid)
    ELSE Raise("ValueError", "Invalid JWK kid", NoKey, <<>>)

_load_jwk_set(algs, obj, kid) ==
    IF obj.shape \in {"tuple", "list"}
    THEN ScanKeys(algs, obj.items, 1, kid)
    ELSE IF In("keys", obj)
    THEN ScanKeys(algs, obj.items, 1, kid)
    ELSE Raise("ValueError", "Invalid JWK set format", NoKey, <<>>)

\* loads comparing the kid with obj.get('kid'), the field present or not
LoadsStrictKid(algs, obj, kid) ==
    IF In("kty", obj)
    THEN IF Truthy(kid) /\ kid # Get(obj.v, "kid")
         THEN Raise("ValueError", "Invalid JSON Web Key", NoKey, <<>>)
         ELSE _load_obj(algs, obj.v)
    ELSE _load_jwk_set(algs, obj, kid)

loads(algs, obj, kid) ==
    IF In("kty", obj)
    THEN IF Truthy(kid) /\ In("kid", obj) /\ kid # obj.v["kid"]
         THEN Raise("ValueError", "Invalid JSON Web Key", NoKey, <<>>)
         ELSE _load_obj(algs, obj.v)
    ELSE _load_jwk_set(algs, obj, kid)

\* ------------------------------------------------------------- dumps
\* lines 103-106: the loop over the registry, from position i on; None
\* when it ends without a match
RECURSIVE FindFrom(_, _, _)
FindFrom(algs, key, i) ==
    IF i > Len(algs)
    THEN None
    ELSE IF isinstance(key, key_cls(algs[i].alg))
    THEN algs[i].alg
    ELSE FindFrom(algs, key, i + 1)

\* _find_key_alg returning the last match instead of the first
FindLastAccepting(algs, key) ==
    LET hits == {i \in 1..Len(algs) : isinstance(key, key_cls(algs[i].alg))}
    IN  IF hits = {} THEN None ELSE algs[CHOOSE i \in hits : \A j \in hits : j <= i].alg

_find_key_alg(algs, key) == FindFrom(algs, key, 1)

\* line 111-114
others == <<"use", "key_ops", "alg", "kid", "x5u", "x5c", "x5t", "x5t#S256">>

\* obj[k] = value
SetField(obj, k, value) ==
    [n \in DOMAIN obj \cup {k} |-> IF n = k THEN value ELSE obj[n]]

\* lines 115-118: the loop over others, from position i on
RECURSIVE AddFrom(_, _, _)
AddFrom(obj, params, i) ==
    IF i > Len(others)
    THEN obj
    ELSE IF Truthy(Get(params, others[i]))
    THEN AddFrom(SetField(obj, others[i], params[others[i]]), params, i + 1)
    ELSE AddFrom(obj, params, i + 1)

\* _add_other_params copying every non-empty parameter, recognized or not
AddAllParams(obj, params) ==
    [n \in DOMAIN obj \cup {m \in DOMAIN params : Truthy(params[m])}
        |-> IF n \in DOMAIN params /\ Truthy(params[n]) THEN params[n] ELSE obj[n]]

_add_other_params(obj, params) == AddFrom(obj, params, 1)

\* lines 74-82, once the codec is chosen
DumpWith(alg, key, params) ==
    LET prep == IF isinstance(key, key_cls(alg))
                THEN Return(key, <<>>)
                ELSE prepare_key(alg, key)
        calls == prep.calls \o <<[alg |-> alg, op |-> "dumps"]>>
        obj == alg_dumps(alg, prep.value)
    IN  IF prep.exc # ""
        THEN Raise(prep.exc, prep.msg, EmptyDict, prep.calls)
        ELSE IF params # EmptyDict
        THEN Return(_add_other_params(obj, params), calls)
        ELSE Return(obj, calls)

dumps(algs, key, kty, params) ==
    IF kty = None
    THEN IF _find_key_alg(algs, key) = None
         THEN Raise("ValueError", "Unsupported key for JWK", EmptyDict, <<>>)
         ELSE DumpWith(_find_key_alg(algs, key), key, params)
    ELSE IF kty \notin Names(algs)
    THEN Raise("KeyError", kty, EmptyDict, <<>>)
    ELSE DumpWith(Lookup(algs, kty), key, params)

\* ------------------------------------------------------------- inputs
DefaultCatalog == [oct |-> "OctA", EC |-> "EcC", HS256 |-> "Hs256"]

RegisterArgs ==
    {ObjArg(o) : o \in Objects} \cup {StrArg(s) : s \in {"oct", "EC", "HS256", "nope", ""}}
        \cup {NoneArg}

\* A dict with the given fields; None leaves the field out.
MkDict(kty, kid, k) ==
    [n \in {x \in {"kty"} : kty # None} \cup {x \in {"kid"} : kid # None}
            \cup {x \in {"k"} : k # None}
        |-> CASE n = "kty" -> kty [] n = "kid" -> kid [] OTHER -> k]

KidArgs == {None, "", "A", "B"}

\* single keys: a registered or unregistered kty, with or without kid and k
SingleKeys == {MkDict(kty, kid, k) : kty \in {"oct", "EC", "RSA"}, kid \in {None, "", "A", "B"},
                                      k \in {None, "AQ", "01"}}

\* dicts that are neither a key nor a key set
OtherDicts == {MkDict(None, kid, k) : kid \in {None, "A"}, k \in {None, "AQ"}} \cup {[use |-> "sig"]}

\* elements of a key set
Elements == {MkDict(e[1], kid, e[2]) : e \in {<<"oct", "AQ">>, <<"EC", "P0">>},
                                          kid \in {None, "", "A", "B"}}

KeySeqs == UNION {[1..n -> Elements] : n \in 0..MaxKeys}

LoadsArgs ==
    {Dict(d) : d \in SingleKeys \cup OtherDicts}
        \cup {List(s) : s \in KeySeqs} \cup {Tuple(s) : s \in KeySeqs}
        \cup {KeysDict(EmptyDict, s) : s \in KeySeqs}

Keys == {[cls |-> c, val |-> v] : c \in {"bytes", "str", "ECKey"}, v \in KeyVals}

KtyArgs == {None, "", "oct", "EC", "RSA"}

\* extra parameters: recognized names, an unrecognized one, and the name
\* of a field the codecs write
ParamNames == {others[i] : i \in 1..Len(others)} \cup {"foo", "k"}

ParamSets ==
    UNION {[D -> {"", "sig"}] : D \in {E \in SUBSET ParamNames : Cardinality(E) <= MaxParams}}

\* every key and kty without extra parameters; every parameter set with a
\* key the oct codecs take directly and one they must prepare
DumpsArgs ==
    {<<key, kty, EmptyDict>> : key \in Keys, kty \in KtyArgs}
        \cup {<<[cls |-> c, val |-> 1], kty, p>> :
                c \in {"bytes", "str"}, kty \in {None, "oct"}, p \in ParamSets}

\* ------------------------------------------------------------ actions
Init ==
    /\ algorithms = <<>>
    /\ JWK_AVAILABLE_ALGORITHMS \in {EmptyDict, DefaultCatalog}
    /\ latest = [t \in {"oct", "EC"} |-> None]
    /\ regOrder = <<>>
    /\ tagOrder = <<>>
    /\ call = [op |-> "init"]
    /\ result = Return(None, <<>>)

Without(s, t) == SelectSeq(s, LAMBDA x : x # t)

\* A behaviour is a chain of register_algorithm calls with at most one
\* loads or dumps at its end.  loads and dumps leave the registry as it
\* is, and so does a register_algorithm that raises: a loads or dumps made
\* after one of them reaches no state that the same call made right after
\* the last successful registration (or construction) does not reach.
Fresh == call.op \in {"init", "register_algorithm"}
Settled == call.op = "init" \/ (call.op = "register_algorithm" /\ result.exc = "")

\* __init__ registers its list one algorithm at a time (lines 31-33), so
\* construction with a list is a chain of Register steps from the empty
\* registry.
Register ==
    /\ Fresh
    /\ \E a \in RegisterArgs :
        LET r == register_algorithm(algorithms, JWK_AVAILABLE_ALGORITHMS, a)
            c == Resolve(JWK_AVAILABLE_ALGORITHMS, a).v
            ok == r.out.exc = ""
        IN  /\ algorithms' = r.algs
            /\ call' = [op |-> "register_algorithm", algorithm |-> a, before |-> algorithms]
            /\ result' = r.out
            /\ latest' = IF ok THEN [latest EXCEPT ![name(c)] = c] ELSE latest
            /\ regOrder' = IF ok THEN Append(Without(regOrder, name(c)), name(c)) ELSE regOrder
            /\ tagOrder' = IF ok /\ latest[name(c)] = None
                           THEN Append(tagOrder, name(c))
                           ELSE tagOrder
            /\ UNCHANGED JWK_AVAILABLE_ALGORITHMS

Loads ==
    /\ Settled
    /\ \E obj \in LoadsArgs, kid \in KidArgs :
        /\ call' = [op |-> "loads", obj |-> obj, kid |-> kid]
        /\ result' = loads(algorithms, obj, kid)
        /\ UNCHANGED <<algorithms, JWK_AVAILABLE_ALGORITHMS, latest, regOrder, tagOrder>>

Dumps ==
    /\ Settled
    /\ \E a \in DumpsArgs :
        /\ call' = [op |-> "dumps", key |-> a[1], kty |-> a[2], params |-> a[3]]
        /\ result' = dumps(algorithms, a[1], a[2], a[3])
        /\ UNCHANGED <<algorithms, JWK_AVAILABLE_ALGORITHMS, latest, regOrder, tagOrder>>

Next == Register \/ Loads \/ Dumps

Spec == Init /\ [][Next]_vars

\* =============================================================== claims
\* The error kinds of the specification, as the exceptions of the code.
InvalidAlgorithmError(r) == r.exc = "ValueError" /\ r.msg = "Invalid algorithm for JWK"
UnknownKeyTypeError(r, kty) == r.exc = "KeyError" /\ r.msg = kty
KeyMismatchError(r) == r.exc = "ValueError" /\ r.msg = "Invalid JSON Web Key"
InvalidKeySetError(r) == r.exc = "ValueError" /\ r.msg = "Invalid JWK set format"
KeyNotFoundError(r) == r.exc = "ValueError" /\ r.msg = "Invalid JWK kid"
UnsupportedKeyError(r) == r.exc = "ValueError" /\ r.msg = "Unsupported key for JWK"

Registered(t) == \E i \in 1..Len(algorithms) : algorithms[i].name = t
CodecAt(t) == algorithms[CHOOSE i \in 1..Len(algorithms) : algorithms[i].name = t].alg

\* r came from codec c alone: c was called, and no other codec was
Uses(r, c) == r.calls # <<>> /\ \A i \in 1..Len(r.calls) : r.calls[i].alg = c

Accepts(c, key) == key.cls \in key_cls(c)

\* c's load inverts its dump, and its dump emits kty equal to its own tag
Inverts(c) ==
    \A key \in Keys : Accepts(c, key) =>
        /\ alg_loads(c, alg_dumps(c, key)).exc = ""
        /\ alg_loads(c, alg_dumps(c, key)).value = key
EmitsOwnTag(c) == \A key \in Keys : Accepts(c, key) => alg_dumps(c, key)["kty"] = name(c)
WellBehaved(c) == Inverts(c) /\ EmitsOwnTag(c)

IsSingleLoad == call.op = "loads" /\ In("kty", call.obj)
IsSetLoad ==
    /\ call.op = "loads"
    /\ ~In("kty", call.obj)
    /\ call.obj.shape \in {"list", "tuple"} \/ In("keys", call.obj)
BareDump == call.op = "dumps" /\ call.kty = None /\ call.params = EmptyDict

\* the outcome of loads on what the last (successful) dumps returned
LoadsOfDumped == loads(algorithms, Dict(result.value), None)
RoundTrips == result.exc = "" /\ LoadsOfDumped.exc = "" /\ LoadsOfDumped.value = call.key

\* the first entry of the registry that accepts the key, if any
FirstAccepting(key) ==
    {i \in 1..Len(algorithms) :
        /\ Accepts(algorithms[i].alg, key)
        /\ \A j \in 1..(i - 1) : ~Accepts(algorithms[j].alg, key)}

\* C1 as stated: a key accepted by SOME registered well-behaved codec
\* round-trips through dumps and loads.
C1_SomeCodec ==
    (BareDump /\ \E i \in 1..Len(algorithms) :
                    Accepts(algorithms[i].alg, call.key) /\ WellBehaved(algorithms[i].alg))
        => RoundTrips

\* C1, amended: a key round-trips through dumps and loads when the codec
\* dumps selects for it, the first registry entry accepting the key, is
\* well-behaved (its load inverts its dump, its dump emits its own tag).
C1_RoundTrip ==
    (BareDump /\ \E i \in FirstAccepting(call.key) : WellBehaved(algorithms[i].alg))
        => RoundTrips

\* a round trip through a well-behaved codec that is registered after a
\* codec that accepts other keys only, beside one that is not well-behaved
C1_Witness ==
    /\ BareDump
    /\ Len(algorithms) = 2
    /\ algorithms[1].alg = "EcD"
    /\ algorithms[2].alg = "OctB"
    /\ call.key = [cls |-> "bytes", val |-> 1]
    /\ RoundTrips

\* the kid check of a single-key load, in the specification's terms
KidSupplied == call.kid # None
KidConflict(supplied) ==
    supplied /\ In("kid", call.obj) /\ call.kid # call.obj.v["kid"]

\* what dispatching a key object to the registry gives: the load of the
\* codec registered under its kty, or UnknownKeyTypeError
IsDispatchOf(r, d) ==
    IF Registered(d["kty"])
    THEN r = alg_loads(CodecAt(d["kty"]), d)
    ELSE UnknownKeyTypeError(r, d["kty"]) /\ r.calls = <<>>

\* C2: a single-key object that passes the kid check is loaded by the
\* codec registered under its kty and by no other; with none registered
\* the call fails with UnknownKeyTypeError and calls no codec.
C2_DispatchByKty ==
    (IsSingleLoad /\ ~KidConflict(KidSupplied)) => IsDispatchOf(result, call.obj.v)

C2_Witness ==
    /\ IsSingleLoad
    /\ call.kid = "A"
    /\ Get(call.obj.v, "kid") = "A"
    /\ Len(algorithms) = 2
    /\ call.obj.v["kty"] = algorithms[2].name
    /\ result.exc = ""
    /\ Uses(result, algorithms[2].alg)

\* C3 as stated: a single-key load fails with KeyMismatchError exactly
\* when a kid was supplied (any value but the default), the object has a
\* kid and the two differ; otherwise it goes on to codec dispatch.
C3_AnySuppliedKid ==
    IsSingleLoad =>
        IF KidConflict(KidSupplied)
        THEN KeyMismatchError(result) /\ result.calls = <<>>
        ELSE IsDispatchOf(result, call.obj.v)

\* C3, amended: the load fails with KeyMismatchError, calling no codec,
\* exactly when a NON-EMPTY kid was supplied, the object has a kid and the
\* two differ; in every other single-key case (no kid or an empty kid
\* supplied, no kid on the object, or the two equal) it goes on to codec
\* dispatch.
C3_KidMismatch ==
    IsSingleLoad =>
        IF KidConflict(KidSupplied /\ call.kid # "")
        THEN KeyMismatchError(result) /\ result.calls = <<>>
        ELSE IsDispatchOf(result, call.obj.v)

C3_Witness ==
    /\ IsSingleLoad
    /\ call.kid = "B"
    /\ Get(call.obj.v, "kid") = "A"
    /\ Registered(call.obj.v["kty"])
    /\ "k" \in DOMAIN call.obj.v
    /\ KeyMismatchError(result)

\* the positions of a key set whose element carries the kid asked for
Hits == {i \in 1..Len(call.obj.items) :
            "kid" \in DOMAIN call.obj.items[i] /\ call.obj.items[i]["kid"] = call.kid}
FirstHit == CHOOSE i \in Hits : \A j \in Hits : i <= j

\* C4: with a kid supplied, a key set gives the load of its first element
\* whose kid equals it, KeyNotFoundError when there is none, and the same
\* outcome whether it is a list, a tuple or a mapping with a keys field.
C4_KeySetLookup ==
    (IsSetLoad /\ KidSupplied) =>
        /\ IF Hits = {}
           THEN KeyNotFoundError(result) /\ result.calls = <<>>
           ELSE IsDispatchOf(result, call.obj.items[FirstHit])
        /\ result = loads(algorithms, List(call.obj.items), call.kid)
        /\ result = loads(algorithms, Tuple(call.obj.items), call.kid)
        /\ result = loads(algorithms, KeysDict(EmptyDict, call.obj.items), call.kid)

\* two elements carry the kid asked for and differ; the first is loaded
C4_Witness ==
    /\ IsSetLoad
    /\ call.obj.shape = "dict"
    /\ call.kid = "A"
    /\ Len(call.obj.items) = 2
    /\ Hits = {1, 2}
    /\ call.obj.items[1] # call.obj.items[2]
    /\ result.exc = ""
    /\ Uses(result, CodecAt(call.obj.items[1]["kty"]))

\* C5 as stated: loads on a key set without a kid always fails.
C5_NoKidAlwaysFails == (IsSetLoad /\ ~KidSupplied) => result.exc # ""

SelectedBy(order, key) ==
    LET hits == {i \in 1..Len(order) : Accepts(latest[order[i]], key)}
    IN  IF hits = {} THEN None ELSE latest[order[CHOOSE i \in hits : \A j \in hits : i <= j]]

SelectsAlong(order) ==
    call.op = "dumps" =>
        IF call.kty # None
        THEN IF Registered(call.kty)
             THEN Uses(result, CodecAt(call.kty))
             ELSE UnknownKeyTypeError(result, call.kty) /\ result.calls = <<>>
        ELSE IF SelectedBy(order, call.key) = None
             THEN UnsupportedKeyError(result) /\ result.calls = <<>>
             ELSE Uses(result, SelectedBy(order, call.key))

\* C7 as stated: without a kty, dumps uses the first codec accepting the
\* key in the order in which the registered codecs were registered.
C7_RegistrationOrder == SelectsAlong(regOrder)

\* C7, amended: with a kty, dumps uses the codec registered under it and
\* fails with UnknownKeyTypeError when there is none; without one it scans
\* the tags in the order in which each tag was FIRST registered (a later
\* registration under a tag replaces its codec and keeps its place), uses
\* the first codec accepting the key, and fails with UnsupportedKeyError
\* when none does.
C7_CodecSelection == SelectsAlong(tagOrder)

\* oct was registered again after EC: dumps still finds it first
C7_Witness ==
    /\ call.op = "dumps"
    /\ call.kty = None
    /\ call.key.cls = "bytes"
    /\ tagOrder = <<"oct", "EC">>
    /\ regOrder = <<"EC", "oct">>
    /\ latest["EC"] = "EcC"
    /\ Uses(result, latest["oct"])

\* the codec a successful dumps used, and the key it dumped
DumpCodec == result.calls[Len(result.calls)].alg
DumpedKey == IF Len(result.calls) = 1 THEN call.key ELSE prepare_key(DumpCodec, call.key).value
Recognized == {"use", "key_ops", "alg", "kid", "x5u", "x5c", "x5t", "x5t#S256"}
Merged == {n \in Recognized \cap DOMAIN call.params : call.params[n] # ""}

\* C8: what dumps returns is the codec's output with every recognized,
\* non-empty extra parameter set to the value supplied; every other field
\* is the codec's, and no other parameter name appears.
C8_MergeExtras ==
    (call.op = "dumps" /\ result.exc = "") =>
        /\ DOMAIN result.value = DOMAIN alg_dumps(DumpCodec, DumpedKey) \cup Merged
        /\ \A n \in DOMAIN result.value :
                result.value[n] = IF n \in Merged
                                  THEN call.params[n]
                                  ELSE alg_dumps(DumpCodec, DumpedKey)[n]

\* use overwrites the codec's own use; k is not a recognized name
C8_Witness ==
    /\ call.op = "dumps"
    /\ call.params = [use |-> "sig", k |-> "sig"]
    /\ result.exc = ""
    /\ DumpCodec = "OctB"
    /\ result.value = [kty |-> "oct", k |-> "01", use |-> "sig"]

\* C9: the registry holds at most one codec per tag, the one most recently
\* registered under it, and loads and dumps given that tag call that codec
\* only.
C9_LastRegistrationWins ==
    /\ \A i, j \in 1..Len(algorithms) : algorithms[i].name = algorithms[j].name => i = j
    /\ \A t \in DOMAIN latest :
            IF latest[t] = None THEN ~Registered(t) ELSE Registered(t) /\ CodecAt(t) = latest[t]
    /\ (IsSingleLoad /\ call.obj.v["kty"] \in DOMAIN latest) =>
            \A i \in 1..Len(result.calls) : result.calls[i].alg = latest[call.obj.v["kty"]]
    /\ (call.op = "dumps" /\ call.kty \in DOMAIN latest) =>
            \A i \in 1..Len(result.calls) : result.calls[i].alg = latest[call.kty]

\* oct was registered twice (it is older than EC in the registry, newer in
\* time), and a load of an oct key is the second codec's
C9_Witness ==
    /\ IsSingleLoad
    /\ call.obj.v["kty"] = "oct"
    /\ tagOrder = <<"oct", "EC">>
    /\ regOrder = <<"EC", "oct">>
    /\ latest["oct"] = "OctB"
    /\ result.exc = ""
    /\ Uses(result, "OctB")

\* the argument names nothing in the catalog, or is no JWK codec
Unresolved ==
    /\ call.algorithm.kind = "str"
    /\ call.algorithm.v \notin DOMAIN JWK_AVAILABLE_ALGORITHMS
NotJWKCodec(a) == a.kind # "obj" \/ a.v \notin JWKCodecs

\* C10 as stated: register_algorithm fails with InvalidAlgorithmError on a
\* name the catalog does not resolve (or with no catalog) and on an object
\* that is no JWK codec, and a failed call leaves the registry as it was.
C10_InvalidAlgorithm ==
    call.op = "register_algorithm" =>
        /\ (Unresolved \/ NotJWKCodec(Resolve(JWK_AVAILABLE_ALGORITHMS, call.algorithm)))
                => InvalidAlgorithmError(result)
        /\ result.exc # "" => algorithms = call.before
====
